---- MODULE Spec2Model ----
(***************************************************************************)
(* A model of ralloc's bookkeeper (src/src/bookkeeper.rs): the block       *)
(* vector that lives in the heap it manages, with alloc, realloc and free. *)
(*                                                                         *)
(* The model follows the release build: debug_assert! and the debug-only   *)
(* check() do not alter control flow, slice indexing is bounds checked     *)
(* (an out-of-range index panics), usize arithmetic wraps.  A panic or an  *)
(* OOM ends the process: no operation returns after it.                    *)
(*                                                                         *)
(* The directory is modelled as the physical array of Block slots that     *)
(* starts at the buffer pointer (mem); the first len slots are the         *)
(* entries the allocator sees.  Slots past len keep what memmove left      *)
(* there; a slot that was never written reads as an arbitrary value        *)
(* (junk).  Callers never write into the memory they were handed.          *)
(***************************************************************************)
EXTENDS Integers, Sequences, FiniteSets, TLC

(* ---------------------------------------------------------------- bounds *)

\* Width of usize in the model (the target has 64); arithmetic is modulo 2^UsizeBits.
UsizeBits == 16

\* The kernel refuses to move the program break past this address.
HeapLimit == 7000

\* Number of public calls explored in the mixed workload (every size, every
\* alignment); the byte workload (alignment 1 only) makes one call more.
MaxOps == 3

\* The growing workload starts with this many allocations of one size and
\* alignment, none of which fits a free entry, so that the directory fills
\* and reserve has to grow it ...
GrowOps == 8

\* ... and goes on with this many calls of any kind.
TailOps == 1

(* ------------------------------------------------------ program constants *)

EMPTY_HEAP == 1

INITIAL_CAPACITY == 16

BRK_MULTIPLIER == 1

BRK_MIN == 200

BRK_MIN_EXTRA == 10000

\* size_of::<Block>() and align_of::<Block>() of { size: usize, ptr: Unique<u8> }
\* on a 64-bit target.
SizeOfBlock == 16

AlignOfBlock == 8

(* --------------------------------------------------------------- helpers *)

Word == 2 ^ UsizeBits

Min(a, b) == IF a <= b THEN a ELSE b

Max(a, b) == IF a >= b THEN a ELSE b

\* usize arithmetic of the release build.
wrapping_add(a, b) == (a + b) % Word

wrapping_sub(a, b) == (a - b + Word) % Word

saturating_add(a, b) == Min(a + b, Word - 1)

\* The byte ranges [p1, p1 + n1) and [p2, p2 + n2) share a byte.
Overlap(p1, n1, p2, n2) == p1 < p2 + n2 /\ p2 < p1 + n1

(* ----------------------------------------------------------------- Block *)

Blk(p, n) == [ptr |-> p, size |-> n]

end(b) == wrapping_add(b.ptr, b.size)

left_to(b, q) == wrapping_add(b.size, b.ptr) = q

is_free(b) == b.size # 0

\* Marks the entry as an occupied placeholder.
set_free(b) == [b EXCEPT !.size = 0]

\* The positions of the directory are 0-based, as in the source.
At(m, i) == m[i + 1]

\* What a slot that was never written reads as, until the allocator looks
\* at it: then it is some arbitrary Block (the call's junk).
Unwritten == [ptr |-> -1, size |-> -1]

Rd(m, i) == IF i < Len(m) THEN m[i + 1] ELSE Unwritten

Wr(m, i, b) ==
  [k \in 1..Max(Len(m), i + 1) |->
     IF k = i + 1 THEN b ELSE IF k <= Len(m) THEN m[k] ELSE Unwritten]

\* The entries the allocator sees: the slice of len slots at the buffer pointer.
Entries(s) == SubSeq(s.mem, 1, s.len)

(* --------------------------------------------------------- pure functions *)

\* A padding that is one byte too long.
aligner_unaligned(ptr, align) == align - (ptr % align) + 1

\* fn aligner
aligner(ptr, align) == align - (ptr % align)

\* fn canonicalize_brk
canonicalize_brk(size) ==
  Max(BRK_MIN, saturating_add(size, Min(BRK_MULTIPLIER * size, BRK_MIN_EXTRA)))

\* core::slice::binary_search_by, as search calls it with |x| x.cmp(block):
\* base/lim halving; Blocks are ordered by ptr.
RECURSIVE bsearch(_, _, _, _)
bsearch(m, p, base, lim) ==
  IF lim = 0 THEN base
  ELSE LET ix == base + lim \div 2
           x  == At(m, ix).ptr
       IN IF x = p THEN ix
          ELSE IF x < p THEN bsearch(m, p, ix + 1, (lim - 1) \div 2)
          ELSE bsearch(m, p, base, lim \div 2)

\* BlockVec::search
search(s, block) == bsearch(s.mem, block.ptr, 0, s.len)

\* BlockVec::find: the index of either result of search.
find(s, block) == search(s, block)

(* ------------------------------------------------------- allocator state *)

\* The state the operations work on, as one record: the BlockVec fields
\* (cap, len, seg_end, ptr), the directory's memory (mem), the program
\* break (brk), how the call ended so far (st), the value returned (ret,
\* ok), and what the call observed: bufbytes is the number of bytes the
\* buffer at ptr really owns, oob records a directory write outside them,
\* dbg that an assertion of the debug build did not hold, ins the last
\* insert made: its arguments and the entries before and after it, nest
\* how many reserves are growing the directory at this point of the call,
\* maxnest the largest nest an alloc_fresh was started at, inits the runs
\* of init.
Panic(s) == [s EXCEPT !.st = "panic"]

\* sys::oom and the Err(..).handle() of inc_brk: the call never returns.
oom(s) == [s EXCEPT !.st = "oom"]

\* sys::inc_brk: moves the program break by n and returns the prior break.
inc_brk(s, n) ==
  IF s.brk + n > HeapLimit THEN oom(s)
  ELSE [s EXCEPT !.brk = s.brk + n, !.ret = s.brk]

\* A directory write to slot k stays inside the buffer's own bytes.
InBuffer(s, k) == (k + 1) * SizeOfBlock <= s.bufbytes

\* The directory writes count whole slots from slot k on (ptr::write,
\* ptr::copy, self[k] = block).  watch is the region whose bytes the running
\* realloc has to preserve; clob records that a directory write landed in it.
dir_write(s, k, count) ==
  [s EXCEPT !.clob = s.clob \/
      (s.watch.size > 0 /\ count > 0 /\
       Overlap(s.ptr + k * SizeOfBlock, count * SizeOfBlock,
               s.watch.ptr, s.watch.size))]

\* The directory writes one usize field of slot k (entry.size, entry.ptr):
\* one half of the slot, whichever the layout puts the field in.
field_write(s, k) ==
  [s EXCEPT !.clob = s.clob \/
      (s.watch.size > 0 /\
       Overlap(s.ptr + k * SizeOfBlock, SizeOfBlock \div 2,
               s.watch.ptr, s.watch.size) /\
       Overlap(s.ptr + k * SizeOfBlock + SizeOfBlock \div 2, SizeOfBlock \div 2,
               s.watch.ptr, s.watch.size))]

\* debug_assert!: a debug build panics when cond is false; the release
\* build goes on.  dbg records that a debug build would have panicked.
debug_assert(s, cond) == IF cond THEN s ELSE [s EXCEPT !.dbg = TRUE]

\* The assertions of the debug build's BlockVec::check all pass.
check_passes(s) ==
  s.len = 0 \/
    /\ \A n \in 1..(s.len - 1) :
         LET i    == At(s.mem, n)
             prev == At(s.mem, n - 1)
             \* end starts as the first entry's pointer
             e    == IF n = 1 THEN prev.ptr ELSE end(prev)
         IN /\ i.ptr >= prev.ptr
            /\ (i.ptr > e \/ (is_free(i) /\ i.ptr = e))
            /\ end(i) <= s.seg_end
    /\ s.len <= s.cap

\* BlockVec::check of the debug build
check(s) == IF s.st # "ok" THEN s ELSE debug_assert(s, check_passes(s))

\* The capacity of a relocated directory (reserve).
grown_cap(needed, cap) == saturating_add(needed, Min(cap, 200 + cap \div 2))

RECURSIVE push(_, _), reserve(_, _), init(_), alloc_fresh(_, _, _),
          realloc_inplace(_, _, _, _)

\* A reserve that initialises the directory but never enlarges it.
reserve_never_grows(s, needed) == IF s.ptr = EMPTY_HEAP THEN init(s) ELSE s

\* The value a call returns, when the process did not end in it.
returning(s, p) == IF s.st # "ok" THEN s ELSE [s EXCEPT !.ret = p]

\* BlockVec::push
push(s, block) ==
  LET write(r) ==
        IF r.st # "ok" THEN r
        ELSE check([dir_write(r, r.len, 1) EXCEPT
                      !.mem = Wr(r.mem, r.len, block),
                      !.len = r.len + 1,
                      !.oob = r.oob \/ ~InBuffer(r, r.len)])
      last_ptr == IF s.len = 0 THEN 0 ELSE At(s.mem, s.len - 1).ptr
  IN IF s.st # "ok" THEN s
     ELSE write(reserve(debug_assert(s, block.size # 0 /\ last_ptr <= block.ptr),
                        s.len + 1))

\* BlockVec::init
init(s) ==
  LET size == INITIAL_CAPACITY * SizeOfBlock + AlignOfBlock
      sum(s3) == IF s3.len = 0 THEN 0
                 ELSE IF s3.len = 1 THEN At(s3.mem, 0).size
                 ELSE wrapping_add(At(s3.mem, 0).size, At(s3.mem, 1).size)
      checked(s3) ==
        IF s3.st # "ok" THEN s3
        ELSE debug_assert(check(s3),
               /\ s3.ptr % AlignOfBlock = 0
               /\ wrapping_add(sum(s3), s3.cap * SizeOfBlock) = size)
      stubbed(s2, stub) == checked(IF stub.size # 0 THEN push(s2, stub) ELSE s2)
      laid(b) ==
        LET raw  == b.ret
            a    == aligner(raw, AlignOfBlock)
            alignment_block == Blk(raw, a)
            bufp == end(alignment_block)
            stub == Blk(end(Blk(bufp, INITIAL_CAPACITY * SizeOfBlock)),
                        AlignOfBlock - a)
        IN IF b.st # "ok" THEN b
           ELSE stubbed(push([b EXCEPT !.cap = INITIAL_CAPACITY, !.ptr = bufp,
                                       !.seg_end = end(stub), !.mem = << >>,
                                       !.bufbytes = INITIAL_CAPACITY * SizeOfBlock,
                                       !.inits = b.inits + 1],
                             alignment_block),
                        stub)
  IN laid(inc_brk(debug_assert(s, s.cap = 0), size))

\* BlockVec::reserve
reserve(s, needed) ==
  LET \* The directory moved to the memory alloc_fresh returned: the len
      \* slots at the old pointer are copied, the rest is not written.
      relocated(f) ==
        IF f.st # "ok" THEN f
        ELSE check(dir_write([f EXCEPT !.ptr = f.ret,
                                       !.mem = SubSeq(f.mem, 1, f.len),
                                       !.bufbytes = f.cap,
                                       !.oob = f.oob \/ f.len * SizeOfBlock > f.cap,
                                       !.nest = f.nest - 1],
                             0, f.len))
      grown(r, oldcap) ==
        IF r.st # "ok" THEN r
        ELSE IF r.ok
        THEN check([r EXCEPT !.cap = needed,
                             !.bufbytes = r.bufbytes + (needed - oldcap),
                             !.nest = r.nest - 1])
        ELSE relocated(alloc_fresh([r EXCEPT !.cap = grown_cap(needed, r.cap)],
                                   grown_cap(needed, r.cap), AlignOfBlock))
      ready(s1) ==
        IF s1.st # "ok" \/ needed <= s1.cap THEN s1
        ELSE LET block == Blk(s1.ptr, s1.cap)
             IN grown(realloc_inplace([s1 EXCEPT !.nest = s1.nest + 1],
                                      find(s1, block), block, needed),
                      s1.cap)
  IN IF s.st # "ok" THEN s
     ELSE ready(IF s.ptr = EMPTY_HEAP THEN init(s) ELSE s)

\* BlockVec::alloc_fresh
alloc_fresh(s, size, align) ==
  LET can_size == canonicalize_brk(size)
      brk_size == can_size + align
      placed(b) ==
        LET ptr == b.ret
            al  == aligner(ptr, align)
            alignment_block == Blk(ptr, al)
            res == Blk(end(alignment_block), size)
            excessive == Blk(end(res), can_size - size)
            asserted ==
              debug_assert(b, /\ res.ptr % align = 0
                              /\ wrapping_add(wrapping_add(res.size, alignment_block.size),
                                              excessive.size) = brk_size)
        IN IF b.st # "ok" THEN b
           ELSE returning(check(push(push([asserted EXCEPT
                                             !.seg_end = end(excessive)],
                                          alignment_block),
                                     excessive)),
                          res.ptr)
  IN IF s.st # "ok" THEN s
     ELSE IF brk_size >= Word THEN oom(s)
     ELSE placed(inc_brk([s EXCEPT !.maxnest = Max(s.maxnest, s.nest)],
                         brk_size))

\* A realloc_inplace that shrinks the next entry before it tests whether
\* the entry is adjacent and large enough, and then gives up.
realloc_inplace_dirty(s, ind, block, new_size) ==
  IF ind + 1 < s.len
  THEN [s EXCEPT !.mem[ind + 2].size =
                   wrapping_sub(@, wrapping_sub(new_size, block.size)),
                 !.ok = FALSE]
  ELSE [s EXCEPT !.ok = FALSE]

\* BlockVec::realloc_inplace; ok is the Result.
realloc_inplace(s, ind, block, new_size) ==
  LET extended(f) ==
        IF f.st # "ok" THEN f
        ELSE check(debug_assert([f EXCEPT !.ok = TRUE], left_to(block, f.ret)))
      entered == debug_assert(s, new_size > block.size)
  IN IF s.st # "ok" THEN s
     ELSE IF ind + 1 < s.len
     THEN LET entry == At(s.mem, ind + 1)
          IN IF left_to(block, entry.ptr)
                /\ wrapping_add(entry.size, block.size) >= new_size
             THEN LET sz == wrapping_sub(entry.size,
                                         wrapping_sub(new_size, block.size))
                  IN check([dir_write(entered, ind + 1, 1) EXCEPT
                              !.mem[ind + 2] = Blk(end(Blk(entry.ptr, sz)), sz),
                              !.ok = TRUE])
             ELSE [entered EXCEPT !.ok = FALSE]
     ELSE IF left_to(block, s.seg_end)
     THEN extended(alloc_fresh(entered, wrapping_sub(new_size, block.size), 1))
     ELSE [entered EXCEPT !.ok = FALSE]

SetMax(S) == CHOOSE x \in S : \A y \in S : y <= x

SetMin(S) == CHOOSE x \in S : \A y \in S : x <= y

\* BlockVec::insert
insert(s, ind, block) ==
  LET free  == {k \in ind..(s.len - 1) : is_free(At(s.mem, k))}
      found == free # {}
      \* The index among the entries from ind on when a free one is found,
      \* the old length otherwise.
      n     == IF found THEN SetMin(free) - ind ELSE s.len
      lengthened(r) == IF r.st # "ok" THEN r ELSE [r EXCEPT !.len = r.len + 1]
      shifted(s1) ==
        LET count == s1.len - n
            m     == s1.mem
            \* ptr::copy of count slots from ind to ind + 1, then
            \* self[ind] = block.
            moved == [k \in 1..Max(Max(Len(m), s1.len), ind + 1 + count) |->
                        IF k - 1 = ind THEN block
                        ELSE IF k - 1 > ind /\ k - 1 <= ind + count
                        THEN Rd(m, k - 2)
                        ELSE Rd(m, k - 1)]
            \* A never-written slot that len now covers shows its junk.
            seen  == [k \in DOMAIN moved |->
                        IF k <= s1.len /\ moved[k] = Unwritten THEN s1.junk
                        ELSE moved[k]]
        IN IF s1.st # "ok" THEN s1
           ELSE IF ind + 1 > s1.len THEN Panic(s1)
           ELSE check(debug_assert(
                        [dir_write(s1, ind, count + 1) EXCEPT
                           !.mem = seen,
                           !.oob = s1.oob \/ ~InBuffer(s1, ind + count),
                           !.ins = [called |-> TRUE, ind |-> ind,
                                    block |-> block, before |-> Entries(s),
                                    after |-> SubSeq(seen, 1, s1.len)]],
                        ind + 1 < s1.len /\ end(block) <= seen[ind + 2].ptr))
      entered ==
        debug_assert(s, /\ Max(ind - 1, 0) < s.len
                        /\ block.ptr >= At(s.mem, Max(ind - 1, 0)).ptr
                        /\ find(s, block) = ind)
  IN IF s.st # "ok" THEN s
     ELSE shifted(IF found THEN entered
                  ELSE lengthened(reserve(entered, s.len + 1)))

\* BlockVec::alloc
alloc(s, size, align) ==
  IF s.st # "ok" THEN s ELSE
  LET fits == {n \in 0..(s.len - 1) :
                 At(s.mem, n).size >=
                   wrapping_add(size, aligner(At(s.mem, n).ptr, align))}
  IN IF fits = {} THEN alloc_fresh(s, size, align)
     ELSE
       LET n  == SetMax(fits)
           i  == At(s.mem, n)
           al == aligner(i.ptr, align)
           b  == Blk(wrapping_add(i.ptr, al), i.size)
           s1 == [field_write(s, n) EXCEPT !.mem[n + 1] =
                             IF al = 0 THEN set_free(i) ELSE [i EXCEPT !.size = al]]
           done(s2) ==
             IF s2.st # "ok" THEN s2
             ELSE debug_assert(check(s2), b.ptr % align = 0)
       IN returning(done(IF b.size # size
                         THEN insert(debug_assert(s1, is_free(i)), n,
                                     Blk(wrapping_add(b.ptr, size),
                                         wrapping_sub(b.size, size)))
                         ELSE debug_assert(s1, is_free(i))),
                    b.ptr)

\* BlockVec::free_ind
free_ind(s, ind, block) ==
  IF s.st # "ok" THEN s
  ELSE IF ind >= s.len THEN Panic(s)
  ELSE
    LET entry == At(s.mem, ind)
        \* "Double free."
        entered == debug_assert(s, entry.ptr # block.ptr \/ ~is_free(entry))
    IN check(IF is_free(entry) /\ ind + 1 < s.len /\ left_to(entry, block.ptr)
             THEN [field_write(entered, ind) EXCEPT
                     !.mem[ind + 1].size = wrapping_add(entry.size, block.size)]
             ELSE IF ind # 0 /\ is_free(At(s.mem, ind - 1))
                     /\ left_to(At(s.mem, ind - 1), block.ptr)
             THEN [field_write(entered, ind - 1) EXCEPT
                     !.mem[ind].size =
                       wrapping_add(At(s.mem, ind - 1).size, block.size)]
             ELSE insert(entered, ind, block))

\* BlockVec::free
free(s, block) == free_ind(s, find(s, block), block)

\* BlockVec::realloc
realloc(s, block, new_size, align) ==
  LET moved(f, p) ==
        IF f.st # "ok" THEN f
        ELSE debug_assert(check(f), p % align = 0)
      \* ptr::copy of block.size bytes to the new region, then free.
      copied(a) ==
        returning(moved(free([a EXCEPT !.watch = Blk(a.ret, block.size)], block),
                        a.ret),
                  a.ret)
      \* "Block wasn't shrinked properly."
      shrunk(f) ==
        IF f.st # "ok" THEN f
        ELSE debug_assert(f, /\ find(f, block) < f.len
                             /\ At(f.mem, find(f, block)).size = new_size)
      tried(r) ==
        IF r.st # "ok" THEN r
        ELSE IF r.ok THEN [r EXCEPT !.ret = block.ptr, !.path = "inplace"]
        ELSE copied(alloc([r EXCEPT !.path = "copy"], new_size, align))
      \* the bytes the caller expects to find again
      kept == [s EXCEPT !.watch = Blk(block.ptr, Min(block.size, new_size))]
  IN IF s.st # "ok" THEN s
     ELSE IF new_size <= block.size
     THEN returning(shrunk(free_ind([kept EXCEPT
                                      !.path = "shrink",
                                      !.tail = wrapping_sub(new_size, block.size)],
                                    find(s, block),
                                    Blk(wrapping_add(block.ptr, new_size),
                                        wrapping_sub(new_size, block.size)))),
                    block.ptr)
     ELSE tried(realloc_inplace(kept, find(s, block), block, new_size))

(* ------------------------------------------------------------- the system *)

VARIABLES
  mem,       \* the Block slots at the directory's buffer pointer
  len,       \* BlockVec.len
  cap,       \* BlockVec.cap
  ptr,       \* BlockVec.ptr, the directory's buffer pointer
  seg_end,   \* BlockVec.seg_end
  brk,       \* the program break
  bufbytes,  \* bytes the directory's buffer owns
  oob,       \* a directory write went outside the buffer
  st,        \* "ok", or how the process ended: "panic", "oom"
  live,      \* the blocks the caller holds: [id, ptr, size]
  last,      \* the last public call: its arguments, what it returned and
             \* observed, and for an alloc the directory and break before it
  nops,      \* public calls made
  wl         \* the caller's workload: "mix", "bytes", "grow", "pair", "huge"

vars == <<mem, len, cap, ptr, seg_end, brk, bufbytes, oob, st, live, last, nops, wl>>

\* Values a never-written slot may hold.
Junk == {Blk(0, 0), Blk(EMPTY_HEAP, 1)}

\* Where the program break may be when the Bookkeeper is made.
InitialBreaks == {1024, 1027}

\* The growing workload is still filling the directory.
Growing == wl = "grow" /\ nops < GrowOps

\* The pair workload allocates bytes first ...
Pairing == wl = "pair" /\ nops < MaxOps + 1

\* ... and then only frees, twice.
Draining == wl = "pair" /\ nops >= MaxOps + 1

\* Only allocations are made.
Filling == Growing \/ Pairing

\* The huge workload asks for a byte or for the largest size there is.
Sizes ==
  IF Growing THEN {300}
  ELSE IF wl = "huge" THEN {1, Word - 1}
  ELSE {1, 298, 300}

Aligns == IF Growing THEN {8} ELSE IF wl \in {"bytes", "pair"} THEN {1} ELSE {1, 8}

Budget ==
  IF wl \in {"mix", "huge"} THEN MaxOps
  ELSE IF wl = "bytes" THEN MaxOps + 1
  ELSE IF wl = "pair" THEN MaxOps + 3
  ELSE GrowOps + TailOps

\* What a call that made no insert reports of it.
NoInsert ==
  [called |-> FALSE, ind |-> 0, block |-> Blk(0, 0), before |-> << >>,
   after |-> << >>]

\* The allocator's fields as the record the operations work on.
Self(junk) ==
  [mem |-> mem, len |-> len, cap |-> cap, ptr |-> ptr, seg_end |-> seg_end,
   brk |-> brk, bufbytes |-> bufbytes, oob |-> oob, st |-> st,
   ret |-> 0, ok |-> FALSE, junk |-> junk, dbg |-> FALSE,
   watch |-> Blk(0, 0), clob |-> FALSE, path |-> "", tail |-> 0,
   ins |-> NoInsert, nest |-> 0, maxnest |-> 0, inits |-> 0]

Store(s) ==
  /\ mem' = s.mem
  /\ len' = s.len
  /\ cap' = s.cap
  /\ ptr' = s.ptr
  /\ seg_end' = s.seg_end
  /\ brk' = s.brk
  /\ bufbytes' = s.bufbytes
  /\ oob' = s.oob
  /\ st' = s.st

\* Bookkeeper::new: no allocation, no BRK.
Init ==
  /\ mem = << >>
  /\ len = 0
  /\ cap = 0
  /\ ptr = EMPTY_HEAP
  /\ seg_end = EMPTY_HEAP
  /\ brk \in InitialBreaks
  /\ bufbytes = 0
  /\ oob = FALSE
  /\ st = "ok"
  /\ live = {}
  /\ last = [op |-> "new", ret |-> 0, size |-> 0, align |-> 1, id |-> 0,
             fresh |-> FALSE, asserted |-> FALSE, was |-> 0, path |-> "",
             clobbered |-> FALSE, tail |-> 0, dir0 |-> << >>, brk0 |-> 0,
             ins |-> NoInsert, nested |-> 0, inits |-> 0]
  /\ nops = 0
  /\ wl \in {"mix", "bytes", "grow", "pair", "huge"}

\* Bookkeeper::alloc
Alloc(size, align, junk) ==
  /\ st = "ok"
  /\ nops < Budget
  /\ ~Draining
  /\ LET done(s) ==
           /\ Store(s)
           /\ live' = IF s.st = "ok"
                      THEN live \cup
                           {[id |-> nops + 1, ptr |-> s.ret, size |-> size]}
                      ELSE live
           /\ last' = [op |-> "alloc", ret |-> s.ret, size |-> size,
                       align |-> align, id |-> nops + 1, fresh |-> s.brk # brk,
                       asserted |-> s.dbg, was |-> 0,
                       path |-> s.path, clobbered |-> s.clob,
                       tail |-> s.tail, ins |-> s.ins,
                       nested |-> s.maxnest, inits |-> s.inits,
                       dir0 |-> SubSeq(mem, 1, len), brk0 |-> brk]
     IN done(alloc(Self(junk), size, align))
  /\ nops' = nops + 1
  /\ UNCHANGED wl

\* Bookkeeper::free, of a block the caller holds, with its size.
Free(b, junk) ==
  /\ st = "ok"
  /\ nops < Budget
  /\ ~Filling
  /\ LET done(s) ==
           /\ Store(s)
           /\ live' = IF s.st = "ok" THEN live \ {b} ELSE live
           /\ last' = [op |-> "free", ret |-> b.ptr, size |-> b.size,
                       align |-> 1, id |-> b.id, fresh |-> s.brk # brk,
                       asserted |-> s.dbg, was |-> b.size,
                       path |-> s.path, clobbered |-> s.clob,
                       tail |-> s.tail, ins |-> s.ins,
                       nested |-> s.maxnest, inits |-> s.inits,
                       dir0 |-> << >>, brk0 |-> 0]
     IN done(free(Self(junk), Blk(b.ptr, b.size)))
  /\ nops' = nops + 1
  /\ UNCHANGED wl

\* Bookkeeper::realloc, of a block the caller holds, with its size.
Realloc(b, new_size, align, junk) ==
  /\ st = "ok"
  /\ nops < Budget
  /\ ~Filling
  /\ ~Draining
  /\ LET done(s) ==
           /\ Store(s)
           /\ live' = IF s.st = "ok"
                      THEN (live \ {b}) \cup
                           {[id |-> b.id, ptr |-> s.ret, size |-> new_size]}
                      ELSE live
           /\ last' = [op |-> "realloc", ret |-> s.ret, size |-> new_size,
                       align |-> align, id |-> b.id, fresh |-> s.brk # brk,
                       asserted |-> s.dbg, was |-> b.size,
                       path |-> s.path, clobbered |-> s.clob,
                       tail |-> s.tail, ins |-> s.ins,
                       nested |-> s.maxnest, inits |-> s.inits,
                       dir0 |-> << >>, brk0 |-> 0]
     IN done(realloc(Self(junk), Blk(b.ptr, b.size), new_size, align))
  /\ nops' = nops + 1
  /\ UNCHANGED wl

Next ==
  \/ \E size \in Sizes, align \in Aligns, junk \in Junk : Alloc(size, align, junk)
  \/ \E b \in live, junk \in Junk : Free(b, junk)
  \/ \E b \in live, new_size \in Sizes, align \in Aligns, junk \in Junk :
       Realloc(b, new_size, align, junk)

Spec == Init /\ [][Next]_vars

(* ---------------------------------------------------------------- claims *)

\* A public operation has returned (the process did not end in it).
Returned == st = "ok" /\ last.op # "new"

AllocReturned == Returned /\ last.op = "alloc"

\* The directory has been grown past its initial capacity.
Grown == cap > INITIAL_CAPACITY

\* C1: the region an alloc returns is disjoint from every other live block.
C1_AllocDisjointFromLive ==
  AllocReturned =>
    \A b \in live :
      b.id # last.id => ~Overlap(last.ret, last.size, b.ptr, b.size)

\* C2: after every public operation no free entry of the directory overlaps
\* a live block.
C2_NoFreeEntryOverlapsLive ==
  Returned =>
    \A i \in 1..len : \A b \in live :
      is_free(mem[i]) => ~Overlap(mem[i].ptr, mem[i].size, b.ptr, b.size)

\* C3: the pointer an alloc returns is a multiple of the requested alignment.
C3_AllocAligned == AllocReturned => last.ret % last.align = 0

\* An alloc with alignment 8 was carved from a free entry whose pointer is
\* not a multiple of 8.
C3_Witness_Carved ==
  /\ AllocReturned
  /\ last.align = AlignOfBlock
  /\ ~last.fresh
  /\ \E i \in 1..len :
       mem[i].ptr % last.align # 0 /\ mem[i].ptr + mem[i].size = last.ret

\* C4: the region an alloc returns ends at or before seg_end.
C4_AllocInsideSegment == AllocReturned => last.ret + last.size <= seg_end

\* C5: after every public operation the directory is sorted by pointer.
C5_Sorted ==
  Returned => \A i \in 1..(len - 1) : mem[i].ptr <= mem[i + 1].ptr

\* C6: after every public operation each entry ends at or before the start
\* of the next one.
C6_NoOverlap ==
  Returned =>
    \A i \in 1..(len - 1) : mem[i].ptr + mem[i].size <= mem[i + 1].ptr

\* C7: after every public operation no two consecutive entries are both
\* free and touching.
C7_Coalesced ==
  Returned =>
    \A i \in 1..(len - 1) :
      ~(is_free(mem[i]) /\ is_free(mem[i + 1])
        /\ mem[i].ptr + mem[i].size = mem[i + 1].ptr)

\* C8: after every public operation every entry ends at or before seg_end.
C8_EntriesInsideSegment ==
  Returned => \A i \in 1..len : mem[i].ptr + mem[i].size <= seg_end

\* C9: after every public operation len <= cap, also once the directory
\* has grown past INITIAL_CAPACITY.
C9_LenWithinCap == Returned => len <= cap

\* The directory was relocated by reserve and holds more than
\* INITIAL_CAPACITY entries.
C9_Witness_Grown == Returned /\ Grown /\ len > INITIAL_CAPACITY

\* C10: after every public operation the directory's buffer lies inside
\* the segment and overlaps no free entry.
C10_BufferInsideSegmentAndNotFree ==
  (Returned /\ ptr # EMPTY_HEAP) =>
    /\ ptr + cap * SizeOfBlock <= seg_end
    /\ \A i \in 1..len :
         is_free(mem[i]) =>
           ~Overlap(mem[i].ptr, mem[i].size, ptr, cap * SizeOfBlock)

\* No two consecutive entries are both free and touching.
Coalesced ==
  \A i \in 1..(len - 1) :
    ~(is_free(mem[i]) /\ is_free(mem[i + 1])
      /\ mem[i].ptr + mem[i].size = mem[i + 1].ptr)

\* C11: on a new Bookkeeper, p = alloc(s, a) followed by free({p, s}) runs
\* without any assertion of the debug build failing, and leaves the
\* directory coalesced.
C11_TestAllocPasses ==
  /\ (st = "ok" /\ nops = 1 /\ last.op = "alloc") => ~last.asserted
  /\ (st = "ok" /\ nops = 2 /\ last.op = "free" /\ last.id = 1) =>
       (~last.asserted /\ Coalesced)

ReallocReturned == Returned /\ last.op = "realloc"

\* C12: realloc returns a region of new_size bytes of the program's memory
\* whose first min(b.size, new_size) bytes are the bytes b held: no
\* directory write of the call landed in them.
C12_ReallocKeepsContent ==
  ReallocReturned =>
    /\ last.ret + last.size <= brk
    /\ ~last.clobbered

\* The directory as the allocator sees it.
Dir == SubSeq(mem, 1, len)

RECURSIVE SumSizes(_)
SumSizes(d) == IF d = << >> THEN 0 ELSE Head(d).size + SumSizes(Tail(d))

\* The free bytes the directory records.
FreeBytes == SumSizes(Dir)

\* C13: a realloc of a live block b to new_size < b.size returns b.ptr and
\* frees exactly the tail: the size passed to free_ind is
\* b.size - new_size, and the free bytes the directory records grow by
\* exactly that much.
C13_ShrinkFreesTail ==
  [][\A b \in live :
       (st' = "ok" /\ last'.op = "realloc" /\ last'.id = b.id
        /\ last'.size < b.size) =>
         /\ last'.ret = b.ptr
         /\ last'.tail = b.size - last'.size
         /\ FreeBytes' = FreeBytes + (b.size - last'.size)]_vars

\* C14: a realloc of a live block b to b.size returns b.ptr and changes
\* nothing: entries, len, cap, buffer pointer, seg_end and the program
\* break are as before.
C14_ReallocSameSizeNoOp ==
  [][\A b \in live :
       (st' = "ok" /\ last'.op = "realloc" /\ last'.id = b.id
        /\ last'.size = b.size) =>
         /\ last'.ret = b.ptr
         /\ Dir' = Dir
         /\ UNCHANGED <<len, cap, ptr, seg_end, brk>>]_vars

\* Number of free entries of the directory d that share a byte with
\* [p, p + n).
RECURSIVE FreeOver(_, _, _)
FreeOver(d, p, n) ==
  IF d = << >> THEN 0
  ELSE (IF is_free(Head(d)) /\ Overlap(Head(d).ptr, Head(d).size, p, n)
        THEN 1 ELSE 0) + FreeOver(Tail(d), p, n)

\* The block A was freed by the last call and B, which touches it, is live.
Touching(B) ==
  /\ st = "ok"
  /\ last.op = "free"
  /\ (last.ret + last.size = B.ptr \/ B.ptr + B.size = last.ret)

\* C15: when two live blocks A and B with A.end() = B.ptr are freed one
\* after the other, in either order, exactly one free entry covers the
\* bytes of both.
C15_AdjacentFreesCoalesce ==
  [][\A B \in live :
       (Touching(B) /\ st' = "ok" /\ last'.op = "free" /\ last'.id = B.id) =>
         LET lo == Min(last.ret, B.ptr)
             n  == last.size + B.size
         IN /\ FreeOver(Dir', lo, n) = 1
            /\ \E i \in 1..len' :
                 /\ is_free(mem'[i])
                 /\ mem'[i].ptr <= lo
                 /\ mem'[i].ptr + mem'[i].size >= lo + n]_vars

\* The byte x is covered by a free entry of the directory d.
Covered(d, x) ==
  \E i \in 1..Len(d) : is_free(d[i]) /\ d[i].ptr <= x /\ x < d[i].ptr + d[i].size

\* Where the coverage of d can change: the ends of its entries.
Edges(d) == {d[i].ptr : i \in 1..Len(d)} \cup {d[i].ptr + d[i].size : i \in 1..Len(d)}

\* C16: after p = alloc(s, a) followed by free({p, s}) the bytes covered by
\* free entries are the same as before the alloc, apart from the bytes
\* obtained from inc_brk in between (those at or above the old break).
C16_AllocFreeRestoresCoverage ==
  [][(st = "ok" /\ last.op = "alloc" /\ st' = "ok" /\ last'.op = "free"
      /\ last'.id = last.id) =>
       \A x \in Edges(last.dir0) \cup Edges(Dir') :
         x < last.brk0 => (Covered(last.dir0, x) <=> Covered(Dir', x))]_vars

\* C17: when size plus the alignment padding (at least one byte) does not
\* fit in a machine word, alloc ends in the OOM handler and returns no
\* pointer; the fit test of the scan does not wrap around.
C17_OverflowIsOom ==
  (last.op = "alloc" /\ last.size + 1 >= Word) => st = "oom"

\* C18: after every public operation, once memory was obtained from
\* inc_brk, seg_end is the program break.
C18_SegEndIsBreak == (Returned /\ ptr # EMPTY_HEAP) => seg_end = brk

\* The blocks realloc_inplace is called for: the blocks the caller holds
\* (from realloc) and the directory's own buffer (from reserve).
InplaceBlocks == {Blk(b.ptr, b.size) : b \in live} \cup {Blk(ptr, cap)}

\* The sizes it is asked for.
InplaceSizes == Sizes \cup {len + 1}

\* The allocator's fields are the same in s and r.
SameAllocator(s, r) ==
  /\ Entries(r) = Entries(s)
  /\ r.len = s.len
  /\ r.cap = s.cap
  /\ r.ptr = s.ptr
  /\ r.seg_end = s.seg_end
  /\ r.brk = s.brk

\* realloc_inplace, called in s as realloc and reserve call it, returned Err.
InplaceErr(s, block, new_size) ==
  LET failed(r) == r.st = "ok" /\ ~r.ok
  IN new_size > block.size
     /\ failed(realloc_inplace(s, find(s, block), block, new_size))

\* C19: whenever realloc_inplace returns Err the allocator is as it was
\* before the call: entries, len, cap, buffer pointer, seg_end and the
\* program break.
C19_InplaceErrKeepsState ==
  (st = "ok" /\ ptr # EMPTY_HEAP) =>
    \A block \in InplaceBlocks, new_size \in InplaceSizes :
      LET kept(s, r) == (r.st = "ok" /\ ~r.ok) => SameAllocator(s, r)
      IN new_size > block.size =>
           kept(Self(Blk(0, 0)),
                realloc_inplace(Self(Blk(0, 0)), find(Self(Blk(0, 0)), block),
                                block, new_size))

\* A realloc has just gone through an Err of realloc_inplace (it took the
\* copy path), and in the state reached realloc_inplace returns Err again
\* for a block the caller holds.
C19_Witness_Err ==
  /\ ReallocReturned
  /\ last.path = "copy"
  /\ \E b \in live, new_size \in Sizes :
       InplaceErr(Self(Blk(0, 0)), Blk(b.ptr, b.size), new_size)

\* The grown region [block.ptr, block.ptr + new_size) in r, the state
\* realloc_inplace left: inside the segment, clear of every free entry of
\* the directory and of every other block the caller holds.
GrownRegionValid(r, block, new_size) ==
  /\ block.ptr + new_size <= r.seg_end
  /\ \A k \in 0..(r.len - 1) :
       is_free(At(r.mem, k)) =>
         ~Overlap(block.ptr, new_size, At(r.mem, k).ptr, At(r.mem, k).size)
  /\ \A b \in live :
       Blk(b.ptr, b.size) # block =>
         ~Overlap(block.ptr, new_size, b.ptr, b.size)

\* The entry after ind, consumed on the next-entry path, covers what is
\* left of it behind the grown region.
NextEntryConsumed(s, r, ind, block, new_size) ==
  ind + 1 < s.len =>
    At(r.mem, ind + 1) = Blk(block.ptr + new_size,
                             end(At(s.mem, ind + 1)) - (block.ptr + new_size))

\* C20: whenever realloc_inplace returns Ok, the grown region
\* [block.ptr, block.ptr + new_size) lies within the segment and overlaps
\* no free entry and no other live allocation, and on the next-entry path
\* the consumed entry covers exactly [block.ptr + new_size, old next.end()).
C20_InplaceOkRegionValid ==
  (st = "ok" /\ ptr # EMPTY_HEAP) =>
    \A block \in InplaceBlocks, new_size \in InplaceSizes :
      LET valid(s, r) ==
            (r.st = "ok" /\ r.ok) =>
              /\ GrownRegionValid(r, block, new_size)
              /\ NextEntryConsumed(s, r, find(s, block), block, new_size)
      IN new_size > block.size =>
           valid(Self(Blk(0, 0)),
                 realloc_inplace(Self(Blk(0, 0)), find(Self(Blk(0, 0)), block),
                                 block, new_size))

\* C21: for every size, alloc_fresh(size, 1) returns the seg_end it found:
\* alignment 1 leaves no pre-stub, and a block that ends at the old seg_end
\* is left-adjacent to the returned pointer.
C21_FreshAtSegEnd ==
  (st = "ok" /\ ptr # EMPTY_HEAP) =>
    \A size \in Sizes :
      LET at_end(r) == r.st = "ok" => r.ret = seg_end
      IN at_end(alloc_fresh(Self(Blk(0, 0)), size, 1))

\* C22: an alloc that carves from a free entry E, with a the padding
\* aligner(E.ptr, align), returns E.ptr + a, leaves the pre-stub {E.ptr, a}
\* and inserts the remainder {E.ptr + a + size, E.size - (a + size)}, which
\* ends where E ended; the free bytes of the directory drop by exactly size.
C22_CarveExact ==
  [][(st = "ok" /\ st' = "ok" /\ last'.op = "alloc" /\ brk' = brk) =>
       /\ SumSizes(SubSeq(mem', 1, len')) = FreeBytes - last'.size
       /\ \E k \in 1..len :
            LET E == mem[k]
                a == aligner(E.ptr, last'.align)
                rest == E.size - (a + last'.size)
            IN /\ rest >= 0
               /\ last'.ret = E.ptr + a
               /\ \E j \in 1..len' : mem'[j] = Blk(E.ptr, a)
               /\ rest > 0 =>
                    \E j \in 1..len' :
                      mem'[j] = Blk(E.ptr + a + last'.size, rest)]_vars

\* The sequence d without its position i (0-based).
Without(d, i) == SubSeq(d, 1, i) \o SubSeq(d, i + 2, Len(d))

\* The free entries of d, in order.
FreeEntries(d) == SelectSeq(d, is_free)

\* C23: insert(i, block) loses and duplicates no entry: afterwards block is
\* at index i, the free entries that were in the directory before are all
\* still there, once each and in the same order, and len has grown by one
\* exactly when there was no occupied (size 0) slot at or after i to
\* overwrite.  Stated for calls that obtained no memory from inc_brk.
C23_InsertKeepsEntries ==
  (Returned /\ last.ins.called /\ ~last.fresh) =>
    LET i == last.ins.ind
        B == last.ins.before
        A == last.ins.after
        occupied == {k \in (i + 1)..Len(B) : ~is_free(B[k])}
    IN /\ i < Len(A)
       /\ A[i + 1] = last.ins.block
       /\ FreeEntries(Without(A, i)) = FreeEntries(B)
       /\ Len(A) = Len(B) + (IF occupied = {} THEN 1 ELSE 0)

\* C24: every public call returns or reaches the OOM handler; no
\* alloc_fresh is started while a reserve-driven alloc_fresh inside another
\* growing reserve is under way (the recursion push -> reserve ->
\* alloc_fresh -> push goes one reserve deep), and init runs at most once,
\* on the uninitialised directory.
C24_CallsTerminate ==
  [][last'.op # "new" =>
       /\ st' \in {"ok", "oom"}
       /\ last'.nested <= 1
       /\ last'.inits <= (IF ptr = EMPTY_HEAP THEN 1 ELSE 0)]_vars

\* C25: no directory write leaves the buffer: every slot that push, insert
\* and the copy of reserve write lies inside the bytes of the buffer the
\* buffer pointer points to at the moment of the write.
C25_NoDirectoryOverrun == ~oob

\* The bytes of the directory's buffer: cap slots at the buffer pointer.
BufferBytes == cap * SizeOfBlock

\* C26: after every public operation the directory's buffer
\* [ptr, ptr + cap * sizeof(Block)) overlaps no live allocation, and the
\* bytes reserve obtained for it cover all of it, so that no later alloc
\* can return memory the directory occupies.
C26_BufferOwned ==
  (Returned /\ ptr # EMPTY_HEAP) =>
    /\ \A b \in live : ~Overlap(ptr, BufferBytes, b.ptr, b.size)
    /\ bufbytes >= BufferBytes

====
